---- MODULE Spec2Model ----
(***************************************************************************)
(* Verification model of the Odoo front-end extensions of this repository: *)
(*   - BulkExportProgress          (bulk_export.js, lines 7-109)           *)
(*   - DocumentPreviewField/Widget (bulk_export.js, document_preview.js,   *)
(*                                  unnamed/part_000)                      *)
(*   - CompressionFormatWidget     (pavement_calculator.js)                *)
(*   - SaleOrder form controllers  (delivery_address_inline.js)            *)
(*   - InvoiceFormController       (unnamed/part_002)                      *)
(*   - PavementCalculator          (pavement_calculator.js, lines 10-155)  *)
(* Each component has its own variables, initial predicate, actions and    *)
(* specification; a specification leaves the other components' variables   *)
(* at their idle values.                                                   *)
(***************************************************************************)
EXTENDS Integers, Sequences, FiniteSets, TLC

\* ------------------------------------------------------------------ bounds
MaxTimers == 2      \* setInterval calls made by one component
MaxRequests == 2    \* status requests issued by one component
MaxNameLen == 4     \* length of the enumerated file names
MaxClicks == 2      \* clicks on preview buttons
MaxOptions == 3     \* options of the selection field
MaxKeys == 3        \* clicks and key presses on format cards
MaxCalls == 2       \* onButtonClicked invocations of the OWL controller
MaxEvents == 3      \* 'button_clicked' events handled by the legacy controller
MaxSaves == 2       \* saveRecord invocations
MaxPcClicks == 2    \* clicks on the calculate button of the pavement calculator
MaxFieldEvents == 3 \* field changes on the sale order form

\* ------------------------------------------------------------------ state
VARIABLES
    \* BulkExportProgress
    phase,          \* "idle" (not instantiated) | "setup" | "mounted" | "unmounted"
    wizardId,       \* props.wizardId
    autoStart,      \* props.autoStart: "absent" | "false" | "true"
    intervalId,     \* this.intervalId (NULL or a timer id)
    liveTimers,     \* interval timers created by setInterval and not yet cleared
    nextTimer,      \* the id the next setInterval call returns
    progress,       \* state.progress
    message,        \* state.message
    isProcessing,   \* state.isProcessing
    pending,        \* status requests awaiting their response
    issued,         \* status requests issued so far
    notifications,  \* notification.add calls, in order
    href,           \* window.location.href
    redirects,      \* number of assignments to window.location.href
    last,           \* the operation that produced this state, with its input
    \* Document preview field: the three implementations, bound to one record
    pvFilename,     \* record.data.filename, a sequence of characters
    pvValue,        \* the binary field's value (base64 data, "" when empty)
    pv,             \* implementation -> its widget state
    pvDialogs,      \* modal dialogs opened, in order
    pvClicks,       \* clicks on a preview button so far
    pvLast,         \* the operation that produced this state
    \* CompressionFormatWidget
    cfOptions,      \* this.field.selection: the option values, in order
    cfRecord,       \* the selection field's value in the record
    cfValue,        \* this.value: the widget's copy of the field's value
    cfCards,        \* the .compression-format-option elements, in order
    cfKeys,         \* clicks and key presses handled so far
    cfLast,         \* the operation that produced this state
    \* SaleOrderDeliveryFormController (OWL) and SaleOrderFormController (legacy)
    soState,        \* the order's state field
    soCalls,        \* OWL onButtonClicked invocations: what each holds
    soDialogs,      \* confirmation dialogs shown, by invocation
    soBaseRuns,     \* runs of the base button handler, in order
    soWarnings,     \* legacy: warning notifications shown, with their event data
    soEvents,       \* legacy: 'button_clicked' events handled so far
    soLast,         \* the operation that produced this state
    \* InvoiceFormController
    ivRecord,       \* record.data: the fields saveRecord reads
    ivSaves,        \* saveRecord invocations: what each holds
    ivNotes,        \* displayNotification calls, in order
    ivLast,         \* the operation that produced this state
    \* PavementCalculator
    pcPhase,        \* "init" until willStart/start have run, then "started"
    pcMaterials,    \* this.materials
    pcMaterialId,   \* value of the #material_id select
    pcArea,         \* value of the #area input
    pcThickness,    \* value of the #thickness input
    pcWaste,        \* value of the #waste_factor input
    pcRound,        \* checked property of #round_to_packages
    pcRange,        \* text of #thickness_range
    pcResults,      \* this.results: <<>> for null, <<result>> otherwise
    pcHidden,       \* .calculator-results carries the class d-none
    pcDialogs,      \* messages of the Dialog.alert calls, in order
    pcClicks,       \* clicks on the calculate button so far
    pcPending,      \* calculate requests sent and not answered yet
    pcLast,         \* the operation that produced this state
    \* sale order form controllers: field changes
    fcController,   \* which controller serves the form: "legacy", "owl", "none"
    fcBase,         \* legacy: base _onFieldChanged calls not completed yet
    fcBaseDone,     \* legacy: base _onFieldChanged calls that completed
    fcReloads,      \* fields whose change led to a reload / model.load()
    fcEvents,       \* field changes handled so far
    fcLast          \* the operation that produced this state

pollVars == <<phase, wizardId, autoStart, intervalId, liveTimers, nextTimer,
              progress, message, isProcessing, pending, issued, notifications,
              href, redirects, last>>

previewVars == <<pvFilename, pvValue, pv, pvDialogs, pvClicks, pvLast>>

formatVars == <<cfOptions, cfRecord, cfValue, cfCards, cfKeys, cfLast>>

saleVars == <<soState, soCalls, soDialogs, soBaseRuns, soWarnings, soEvents, soLast>>

invoiceVars == <<ivRecord, ivSaves, ivNotes, ivLast>>

pavementVars == <<pcPhase, pcMaterials, pcMaterialId, pcArea, pcThickness,
                  pcWaste, pcRound, pcRange, pcResults, pcHidden, pcDialogs,
                  pcClicks, pcPending, pcLast>>

fieldVars == <<fcController, fcBase, fcBaseDone, fcReloads, fcEvents, fcLast>>

vars == <<pollVars, previewVars, formatVars, saleVars, invoiceVars,
          pavementVars, fieldVars>>

nonPollVars == <<previewVars, formatVars, saleVars, invoiceVars,
                 pavementVars, fieldVars>>
nonPreviewVars == <<pollVars, formatVars, saleVars, invoiceVars,
                    pavementVars, fieldVars>>
nonFormatVars == <<pollVars, previewVars, saleVars, invoiceVars,
                   pavementVars, fieldVars>>
nonSaleVars == <<pollVars, previewVars, formatVars, invoiceVars,
                 pavementVars, fieldVars>>
nonInvoiceVars == <<pollVars, previewVars, formatVars, saleVars,
                    pavementVars, fieldVars>>
nonPavementVars == <<pollVars, previewVars, formatVars, saleVars, invoiceVars,
                     fieldVars>>
nonFieldVars == <<pollVars, previewVars, formatVars, saleVars, invoiceVars,
                  pavementVars>>

\* ===================================================== BulkExportProgress
NULL == 0                       \* this.intervalId = null; timer ids are positive
AppUrl == "/web"                \* the page the component lives on

WizardIds == {0, 7}
AutoStarts == {"absent", "false", "true"}

\* A field the response does not carry (undefined).
MissingNumber == -1
MissingText == "<undefined>"

\* The fields of a /bulk_export/status response that checkProgress reads.
\* For error and download_url, which are only tested for truthiness, ""
\* stands for a missing or empty string.
Results == [error : {"", "boom"},
            state : {"processing", "done", "error"},
            download_url : {"", "/dl"},
            progress_percentage : {MissingNumber, 0, 40},
            progress_message : {MissingText, "working"}]

\* Faulty variant: result.progress_percentage is stored without `|| 0`.
OrZero_Identity(x) == x

\* x || 0 for a number x
OrZero(x) == IF x = MissingNumber \/ x = 0 THEN 0 ELSE x

\* s || "" for a string s
OrEmpty(s) == IF s = MissingText \/ s = "" THEN "" ELSE s

NoResult == [error |-> "", state |-> "none", download_url |-> "",
             progress_percentage |-> 0, progress_message |-> ""]

Note(type, text) == [type |-> type, text |-> text]

SuccessText == "Exportacion completada. Descargando archivo..."
FailureText == "Error en la exportacion. Revise los logs."

\* onMounted: if (this.props.wizardId && this.props.autoStart)
AutoStartsOnMount == wizardId /= 0 /\ autoStart = "true"

\* startPolling(): isProcessing = true; intervalId = setInterval(...)
startPolling ==
    /\ nextTimer <= MaxTimers
    /\ isProcessing' = TRUE
    /\ intervalId' = nextTimer
    /\ liveTimers' = liveTimers \cup {nextTimer}
    /\ nextTimer' = nextTimer + 1

\* stopPolling(): if (intervalId) { clearInterval(intervalId); intervalId = null }
stopPolling ==
    IF intervalId /= NULL
    THEN /\ liveTimers' = liveTimers \ {intervalId}
         /\ intervalId' = NULL
    ELSE UNCHANGED <<intervalId, liveTimers>>

\* Faulty variant: the 'done' branch redirects without testing result.download_url.
DoneRedirects_Always(result) == TRUE

\* if (result.download_url) inside the 'done' branch
DoneRedirects(result) == result.download_url /= ""

\* checkProgress() from the point where the awaited rpc has resolved with result
checkProgressResolved(result) ==
    IF result.error /= ""
    THEN /\ notifications' = Append(notifications, Note("danger", result.error))
         /\ stopPolling
         /\ UNCHANGED <<progress, message, isProcessing, href, redirects>>
    ELSE /\ progress' = OrZero(result.progress_percentage)
         /\ message' = OrEmpty(result.progress_message)
         /\ IF result.state = "done"
            THEN /\ isProcessing' = FALSE
                 /\ stopPolling
                 /\ IF DoneRedirects(result)
                    THEN /\ notifications' =
                                Append(notifications, Note("success", SuccessText))
                         /\ href' = result.download_url
                         /\ redirects' = redirects + 1
                    ELSE UNCHANGED <<notifications, href, redirects>>
            ELSE IF result.state = "error"
            THEN /\ isProcessing' = FALSE
                 /\ stopPolling
                 /\ notifications' =
                        Append(notifications, Note("danger", FailureText))
                 /\ UNCHANGED <<href, redirects>>
            ELSE UNCHANGED <<isProcessing, intervalId, liveTimers,
                             notifications, href, redirects>>

\* checkProgress() from the point where the awaited rpc has thrown
checkProgressRejected ==
    /\ stopPolling
    /\ UNCHANGED <<progress, message, isProcessing, notifications, href, redirects>>

PollInit ==
    /\ phase = "setup"
    /\ wizardId \in WizardIds
    /\ autoStart \in AutoStarts
    /\ intervalId = NULL
    /\ liveTimers = {}
    /\ nextTimer = 1
    /\ progress = 0
    /\ message = ""
    /\ isProcessing = FALSE
    /\ pending = 0
    /\ issued = 0
    /\ notifications = <<>>
    /\ href = AppUrl
    /\ redirects = 0
    /\ last = [op |-> "setup", res |-> NoResult]

\* The component is not in use (the other components' specifications).
PollIdle ==
    /\ phase = "idle"
    /\ wizardId = 0
    /\ autoStart = "absent"
    /\ intervalId = NULL
    /\ liveTimers = {}
    /\ nextTimer = 1
    /\ progress = 0
    /\ message = ""
    /\ isProcessing = FALSE
    /\ pending = 0
    /\ issued = 0
    /\ notifications = <<>>
    /\ href = AppUrl
    /\ redirects = 0
    /\ last = [op |-> "idle", res |-> NoResult]

\* The framework mounts the component: the onMounted callback runs.
Mount ==
    /\ phase = "setup"
    /\ phase' = "mounted"
    /\ IF AutoStartsOnMount
       THEN startPolling
       ELSE UNCHANGED <<isProcessing, intervalId, liveTimers, nextTimer>>
    /\ last' = [op |-> "mount", res |-> NoResult]
    /\ UNCHANGED <<wizardId, autoStart, progress, message, pending, issued,
                   notifications, href, redirects>>
    /\ UNCHANGED nonPollVars

\* A caller holding the mounted component calls its startPolling() method
\* (the way to start polling when autoStart is not set). The method has no
\* guard of its own, so it can be called while a timer is running.
StartPolling ==
    /\ phase = "mounted"
    /\ startPolling
    /\ last' = [op |-> "startPolling", res |-> NoResult]
    /\ UNCHANGED <<phase, wizardId, autoStart, progress, message, pending, issued,
                   notifications, href, redirects>>
    /\ UNCHANGED nonPollVars

\* A caller holding the mounted component calls its stopPolling() method.
StopPolling ==
    /\ phase = "mounted"
    /\ stopPolling
    /\ last' = [op |-> "stopPolling", res |-> NoResult]
    /\ UNCHANGED <<phase, wizardId, autoStart, nextTimer, progress, message,
                   isProcessing, pending, issued, notifications, href, redirects>>
    /\ UNCHANGED nonPollVars

\* A live interval timer fires: checkProgress() runs up to its await, which
\* sends the status request.
Tick ==
    /\ \E t \in liveTimers : TRUE
    /\ issued < MaxRequests
    /\ pending' = pending + 1
    /\ issued' = issued + 1
    /\ last' = [op |-> "tick", res |-> NoResult]
    /\ UNCHANGED <<phase, wizardId, autoStart, intervalId, liveTimers, nextTimer,
                   progress, message, isProcessing, notifications, href, redirects>>
    /\ UNCHANGED nonPollVars

\* A pending status request resolves: checkProgress() resumes with the result.
Response ==
    /\ pending > 0
    /\ \E result \in Results :
          /\ checkProgressResolved(result)
          /\ last' = [op |-> "response", res |-> result]
    /\ pending' = pending - 1
    /\ UNCHANGED <<phase, wizardId, autoStart, nextTimer, issued>>
    /\ UNCHANGED nonPollVars

\* A pending status request fails: checkProgress() resumes in its catch block.
RpcFailure ==
    /\ pending > 0
    /\ checkProgressRejected
    /\ last' = [op |-> "rpcFailure", res |-> NoResult]
    /\ pending' = pending - 1
    /\ UNCHANGED <<phase, wizardId, autoStart, nextTimer, issued>>
    /\ UNCHANGED nonPollVars

\* The framework unmounts the component: the onWillUnmount callback runs.
\* if (this.intervalId) clearInterval(this.intervalId)   -- intervalId is kept
Unmount ==
    /\ phase = "mounted"
    /\ phase' = "unmounted"
    /\ liveTimers' = IF intervalId /= NULL THEN liveTimers \ {intervalId}
                                           ELSE liveTimers
    /\ last' = [op |-> "unmount", res |-> NoResult]
    /\ UNCHANGED <<wizardId, autoStart, intervalId, nextTimer, progress, message,
                   isProcessing, pending, issued, notifications, href, redirects>>
    /\ UNCHANGED nonPollVars

\* ---------------------------------------------------------------- claims
\* C1: once checkProgress has processed a status response whose state is
\* 'done' or 'error', polling is stopped: intervalId is null and no interval
\* timer of the component is left to trigger another checkProgress call.
C1_TerminalStopsPolling ==
    (last.op = "response" /\ last.res.state \in {"done", "error"})
        => (intervalId = NULL /\ liveTimers = {})

\* C2: the browser is redirected exactly in the steps that process a status
\* response without result.error whose state is 'done' and whose download_url
\* is non-empty; the redirect goes to that download_url and comes with the
\* success notification. No other step (another state, no download_url,
\* result.error, failed RPC, any other operation) redirects.
C2_RedirectExactlyOnDoneWithUrl ==
    [][ /\ (redirects' /= redirects \/ href' /= href)
            <=> /\ last'.op = "response"
                /\ last'.res.error = ""
                /\ last'.res.state = "done"
                /\ last'.res.download_url /= ""
        /\ (redirects' /= redirects)
            => /\ redirects' = redirects + 1
               /\ href' = last'.res.download_url
               /\ notifications' =
                      Append(notifications, Note("success", SuccessText)) ]_vars

\* C2 witness: a 'done' response with a download_url has redirected the browser.
C2_Witness ==
    /\ last.op = "response"
    /\ last.res.state = "done"
    /\ redirects = 1
    /\ href = "/dl"
    /\ notifications /= <<>>

\* C3: at most one interval timer created by the component is live, and it is
\* the one recorded in intervalId.
C3_SingleRecordedTimer ==
    /\ Cardinality(liveTimers) <= 1
    /\ liveTimers /= {} => liveTimers = {intervalId}

\* C4: polling starts on mount iff props.wizardId and props.autoStart are both
\* truthy, and once the component is unmounted no interval timer is left, so
\* no timer tick issues a status request.
C4_MountStartsUnmountStops ==
    /\ last.op = "mount" => ((intervalId /= NULL /\ liveTimers /= {}) <=> 
                               (wizardId /= 0 /\ autoStart = "true"))
    /\ phase = "unmounted" => liveTimers = {}
    /\ last.op = "tick" => phase /= "unmounted"

\* A response that makes checkProgress call stopPolling().
StopsPolling(res) == res.error /= "" \/ res.state \in {"done", "error"}

\* C11: a status response with a truthy result.error shows a danger
\* notification with that text and stops polling (intervalId null, no
\* interval timer left), and leaves state.progress and state.message as they
\* were, whatever result.state and result.download_url hold.
C11_ErrorResultStopsPolling ==
    [][ (last'.op = "response" /\ last'.res.error /= "")
          => /\ notifications' =
                    Append(notifications, Note("danger", last'.res.error))
             /\ intervalId' = NULL
             /\ liveTimers' = {}
             /\ progress' = progress
             /\ message' = message ]_vars

\* C12: a status request that throws stops polling (intervalId null, no
\* interval timer left), shows no notification, does not redirect and leaves
\* state.progress, state.message and state.isProcessing as they were.
C12_RpcFailureStopsPolling ==
    [][ last'.op = "rpcFailure"
          => /\ intervalId' = NULL
             /\ liveTimers' = {}
             /\ notifications' = notifications
             /\ redirects' = redirects
             /\ href' = href
             /\ progress' = progress
             /\ message' = message
             /\ isProcessing' = isProcessing ]_vars

\* C13: a status response without result.error sets state.progress to
\* result.progress_percentage (0 when missing or falsy) and state.message to
\* result.progress_message ('' when missing); when the state is neither
\* 'done' nor 'error' the timers and isProcessing stay as they are.
C13_ProgressMapping ==
    [][ (last'.op = "response" /\ last'.res.error = "")
          => /\ progress' = (IF last'.res.progress_percentage \in {-1, 0}
                             THEN 0 ELSE last'.res.progress_percentage)
             /\ message' = (IF last'.res.progress_message = "<undefined>"
                            THEN "" ELSE last'.res.progress_message)
             /\ last'.res.state \notin {"done", "error"}
                   => /\ intervalId' = intervalId
                      /\ liveTimers' = liveTimers
                      /\ isProcessing' = isProcessing ]_vars

\* C13 witness: the second request was answered by a 'processing' response
\* without progress_percentage; progress is 0, the message is the response's,
\* the timer is still active and isProcessing is still true.
C13_Witness ==
    /\ last.op = "response"
    /\ last.res.error = ""
    /\ last.res.state = "processing"
    /\ last.res.progress_percentage = -1
    /\ last.res.progress_message = "working"
    /\ progress = 0
    /\ message = "working"
    /\ issued = 2
    /\ isProcessing
    /\ intervalId \in liveTimers

\* C14: isProcessing is true only while the recorded interval timer is
\* active; after a response that stopped polling (terminal state or
\* result.error) or an RPC exception isProcessing is false.
C14_ProcessingOnlyWhilePolling ==
    /\ (last.op = "rpcFailure" \/ (last.op = "response" /\ StopsPolling(last.res)))
          => ~isProcessing
    /\ (phase = "mounted" /\ isProcessing) => intervalId \in liveTimers

\* C15: once a response has stopped polling, a response arriving after it
\* (stated here for the response handled next, which was in flight when
\* polling stopped) changes neither state.progress nor state.message, shows
\* no notification and does not redirect.
C15_LateResponseIgnored ==
    [][ (last.op = "response" /\ StopsPolling(last.res) /\ last'.op = "response")
          => /\ progress' = progress
             /\ message' = message
             /\ notifications' = notifications
             /\ redirects' = redirects
             /\ href' = href ]_vars

\* C16: a status response that arrives after the component was unmounted
\* updates no component state, shows no notification and does not redirect.
C16_ResponseAfterUnmountIgnored ==
    [][ (phase = "unmounted" /\ last'.op = "response")
          => /\ progress' = progress
             /\ message' = message
             /\ isProcessing' = isProcessing
             /\ notifications' = notifications
             /\ redirects' = redirects
             /\ href' = href ]_vars

PollNext ==
    \/ Mount
    \/ StartPolling
    \/ StopPolling
    \/ Tick
    \/ Response
    \/ RpcFailure
    \/ Unmount

\* ================================================== document preview field
\* "owl":     DocumentPreviewField  (bulk_export.js, lines 122-202)
\* "legacy":  DocumentPreviewWidget (document_preview.js, lines 29-123)
\* "legacy2": DocumentPreviewWidget (unnamed/part_000, lines 15-88)
Impls == {"owl", "legacy", "legacy2"}

\* Characters of file names; String.prototype.toLowerCase on one character.
NameChars == {".", "p", "d", "f", "P", "g"}

ToLowerChar(c) ==
    CASE c = "P" -> "p"
      [] c = "D" -> "d"
      [] c = "F" -> "f"
      [] c = "N" -> "n"
      [] c = "G" -> "g"
      [] c = "J" -> "j"
      [] OTHER -> c

toLowerCase(str) == [i \in 1..Len(str) |-> ToLowerChar(str[i])]

\* str.split('.').pop(): the text after the last '.', the whole string when
\* it holds no '.'
SplitPop(str) ==
    LET dots == {i \in 1..Len(str) : str[i] = "."}
    IN  IF dots = {}
        THEN str
        ELSE LET lastDot == CHOOSE i \in dots : \A j \in dots : j <= i
             IN  SubSeq(str, lastDot + 1, Len(str))

PdfExtensions == {<<"p", "d", "f">>}
ImageExtensions == {<<"j", "p", "g">>, <<"j", "p", "e", "g">>, <<"p", "n", "g">>,
                    <<"g", "i", "f">>, <<"b", "m", "p">>}

\* DocumentPreviewField._determineDocumentType: the new state.documentType
OwlDetermineDocumentType(filename, documentType) ==
    IF filename /= <<>>
    THEN LET extension == toLowerCase(SplitPop(filename))
         IN  IF extension \in PdfExtensions THEN "pdf"
             ELSE IF extension \in ImageExtensions THEN "image"
             ELSE documentType
    ELSE documentType

\* DocumentPreviewWidget.init (document_preview.js): this.documentType
LegacyDocumentType(filename) ==
    IF filename /= <<>>
    THEN LET extension == toLowerCase(SplitPop(filename))
         IN  IF extension \in PdfExtensions THEN "pdf"
             ELSE IF extension \in ImageExtensions THEN "image"
             ELSE "unknown"
    ELSE "unknown"

\* DocumentPreviewWidget.init (unnamed/part_000): this.documentType
Legacy2DocumentType(filename) ==
    IF filename /= <<>>
    THEN LET extension == toLowerCase(SplitPop(filename))
         IN  IF extension \in PdfExtensions THEN "pdf"
             ELSE IF extension \in ImageExtensions THEN "image"
             ELSE "unknown"
    ELSE "unknown"

\* The condition under which each implementation creates the preview button
\* (previewEnabled is set to true at construction and never changed).
OwlShowsButton(value, documentType) ==
    value /= "" /\ (documentType = "pdf" \/ documentType = "image")

LegacyShowsButton(value, documentType) ==
    value /= "" /\ (documentType = "pdf" \/ documentType = "image")

Legacy2ShowsButton(value, documentType) ==
    value /= "" /\ (documentType = "pdf" \/ documentType = "image")

\* The media element each _onClickPreview puts into the dialog body.
Media(tag, data) == [tag |-> tag, data |-> data]

OwlPreviewMedia(documentType, fileData) ==
    IF documentType = "pdf" THEN Media("embed", fileData)
    ELSE IF documentType = "image" THEN Media("img", fileData)
    ELSE Media("none", "")

LegacyPreviewMedia(documentType, fileData) ==
    IF documentType = "pdf" THEN Media("embed", fileData)
    ELSE IF documentType = "image" THEN Media("img", fileData)
    ELSE Media("none", "")

Legacy2PreviewMedia(documentType, fileData) ==
    IF documentType = "pdf" THEN Media("embed", fileData)
    ELSE IF documentType = "image" THEN Media("img", fileData)
    ELSE Media("none", "")

PreviewMedia(impl, documentType, fileData) ==
    CASE impl = "owl" -> OwlPreviewMedia(documentType, fileData)
      [] impl = "legacy" -> LegacyPreviewMedia(documentType, fileData)
      [] impl = "legacy2" -> Legacy2PreviewMedia(documentType, fileData)

\* Faulty variant: _onClickPreview without the test of fileData.
ClickOpensDialog_Always(fileData) == TRUE

\* if (!fileData) return;  -- otherwise one dialog is opened
ClickOpensDialog(fileData) == fileData /= ""

\* _onClickPreview of implementation impl: the dialogs after the click
onClickPreview(impl, documentType, fileData, dialogs) ==
    IF ClickOpensDialog(fileData)
    THEN Append(dialogs, [impl |-> impl,
                          body |-> PreviewMedia(impl, documentType, fileData)])
    ELSE dialogs

Widget(stage, type, button) == [stage |-> stage, type |-> type, button |-> button]

FileValues == {"", "JVBERi0x"}

\* Every file name of at most MaxNameLen characters over NameChars, and longer
\* names that reach the extensions NameChars cannot spell.
ShortNames == UNION {[1..n -> NameChars] : n \in 0..MaxNameLen}
LongNames == {<<"a", ".", "j", "p", "e", "g">>, <<"a", ".", "J", "P", "G">>,
              <<"x", ".", "t", "a", "r", ".", "g", "i", "f">>,
              <<"a", ".", "b", "m", "p">>, <<"a", ".", "P", "n", "G">>,
              <<"a", ".", "t", "i", "f", "f">>, <<"a", ".", "p", "d", "f", ".", "t", "x", "t">>,
              <<"j", "p", "e", "g">>, <<"a", ".", "p", "d", "f", "x">>}
ClassifyNames == ShortNames \cup LongNames
PreviewNames == {<<>>, <<"a", ".", "p", "d", "f">>, <<"a", ".", "P", "n", "G">>,
                 <<"a", ".", "t", "x", "t">>, <<"p", "d", "f">>}

PreviewStart ==
    /\ pvValue \in FileValues
    /\ pv = [i \in Impls |-> Widget("none", "unknown", FALSE)]
    /\ pvDialogs = <<>>
    /\ pvClicks = 0
    /\ pvLast = [op |-> "none", impl |-> "none"]

ClassifyInit == pvFilename \in ClassifyNames /\ PreviewStart

PreviewInit == pvFilename \in PreviewNames /\ PreviewStart

PreviewIdle ==
    /\ pvFilename = <<>>
    /\ pvValue = ""
    /\ pv = [i \in Impls |-> Widget("none", "unknown", FALSE)]
    /\ pvDialogs = <<>>
    /\ pvClicks = 0
    /\ pvLast = [op |-> "idle", impl |-> "none"]

\* DocumentPreviewField.setup: state.documentType = 'unknown'
OwlSetup ==
    /\ pv["owl"].stage = "none"
    /\ pv' = [pv EXCEPT !["owl"] = Widget("init", "unknown", FALSE)]
    /\ pvLast' = [op |-> "setup", impl |-> "owl"]
    /\ UNCHANGED <<pvFilename, pvValue, pvDialogs, pvClicks>>
    /\ UNCHANGED nonPreviewVars

\* The onMounted callback of DocumentPreviewField: _determineDocumentType()
\* then _addPreviewButton(); the button is inserted only next to an existing
\* clear button.
OwlMounted ==
    /\ pv["owl"].stage = "init"
    /\ \E hasClearButton \in BOOLEAN :
          LET type == OwlDetermineDocumentType(pvFilename, pv["owl"].type)
          IN  pv' = [pv EXCEPT !["owl"] =
                        Widget("ready", type,
                               OwlShowsButton(pvValue, type) /\ hasClearButton)]
    /\ pvLast' = [op |-> "mounted", impl |-> "owl"]
    /\ UNCHANGED <<pvFilename, pvValue, pvDialogs, pvClicks>>
    /\ UNCHANGED nonPreviewVars

\* DocumentPreviewWidget.init (document_preview.js)
LegacyInit ==
    /\ pv["legacy"].stage = "none"
    /\ pv' = [pv EXCEPT !["legacy"] =
                 Widget("init", LegacyDocumentType(pvFilename), FALSE)]
    /\ pvLast' = [op |-> "init", impl |-> "legacy"]
    /\ UNCHANGED <<pvFilename, pvValue, pvDialogs, pvClicks>>
    /\ UNCHANGED nonPreviewVars

\* DocumentPreviewWidget.init (unnamed/part_000)
Legacy2Init ==
    /\ pv["legacy2"].stage = "none"
    /\ pv' = [pv EXCEPT !["legacy2"] =
                 Widget("init", Legacy2DocumentType(pvFilename), FALSE)]
    /\ pvLast' = [op |-> "init", impl |-> "legacy2"]
    /\ UNCHANGED <<pvFilename, pvValue, pvDialogs, pvClicks>>
    /\ UNCHANGED nonPreviewVars

\* DocumentPreviewWidget._render (document_preview.js) with field value `value`:
\* the base render runs first (it may keep or drop a button added earlier),
\* then a button is added after an existing clear button.
LegacyRendered(w, value, keepsOld, hasClearButton) ==
    Widget("ready", w.type,
           (keepsOld /\ w.button)
           \/ (LegacyShowsButton(value, w.type) /\ hasClearButton))

\* DocumentPreviewWidget._render (unnamed/part_000)
Legacy2Rendered(w, value, keepsOld, hasClearButton) ==
    Widget("ready", w.type,
           (keepsOld /\ w.button)
           \/ (Legacy2ShowsButton(value, w.type) /\ hasClearButton))

LegacyRender ==
    /\ pv["legacy"].stage \in {"init", "ready"}
    /\ \E keepsOld \in BOOLEAN, hasClearButton \in BOOLEAN :
          pv' = [pv EXCEPT !["legacy"] =
                    LegacyRendered(pv["legacy"], pvValue, keepsOld, hasClearButton)]
    /\ pvLast' = [op |-> "render", impl |-> "legacy"]
    /\ UNCHANGED <<pvFilename, pvValue, pvDialogs, pvClicks>>
    /\ UNCHANGED nonPreviewVars

Legacy2Render ==
    /\ pv["legacy2"].stage \in {"init", "ready"}
    /\ \E keepsOld \in BOOLEAN, hasClearButton \in BOOLEAN :
          pv' = [pv EXCEPT !["legacy2"] =
                    Legacy2Rendered(pv["legacy2"], pvValue, keepsOld, hasClearButton)]
    /\ pvLast' = [op |-> "render", impl |-> "legacy2"]
    /\ UNCHANGED <<pvFilename, pvValue, pvDialogs, pvClicks>>
    /\ UNCHANGED nonPreviewVars

\* The field's value changes (a file is uploaded or cleared). The OWL field
\* reads props.value on every use and has no hook that runs again; a rendered
\* legacy widget is reset by the form view, which runs its _render again.
ChangeValue ==
    /\ \E v \in FileValues \ {pvValue} :
          /\ pvValue' = v
          /\ \E k1 \in BOOLEAN, c1 \in BOOLEAN, k2 \in BOOLEAN, c2 \in BOOLEAN :
                pv' = [pv EXCEPT
                         !["legacy"] = IF @.stage = "ready"
                                       THEN LegacyRendered(@, v, k1, c1) ELSE @,
                         !["legacy2"] = IF @.stage = "ready"
                                        THEN Legacy2Rendered(@, v, k2, c2) ELSE @]
    /\ pvLast' = [op |-> "change", impl |-> "none"]
    /\ UNCHANGED <<pvFilename, pvDialogs, pvClicks>>
    /\ UNCHANGED nonPreviewVars

\* Whether a click can reach _onClickPreview. The OWL field listens on the
\* button it created. The legacy widgets delegate 'click
\* .o_document_preview_button' on their root element: in part_000 only the
\* added button has that class; document_preview.js renders its own template
\* 'DocumentPreview', which may hold such an element whatever the value is.
CanClick(impl) ==
    /\ pv[impl].stage = "ready"
    /\ pv[impl].button \/ impl = "legacy"

\* A click on the preview button of implementation impl: _onClickPreview
Click(impl) ==
    /\ CanClick(impl)
    /\ pvClicks < MaxClicks
    /\ pvClicks' = pvClicks + 1
    /\ pvDialogs' = onClickPreview(impl, pv[impl].type, pvValue, pvDialogs)
    /\ pvLast' = [op |-> "click", impl |-> impl]
    /\ UNCHANGED <<pvFilename, pvValue, pv>>
    /\ UNCHANGED nonPreviewVars

ClickOwl == Click("owl")
ClickLegacy == Click("legacy")
ClickLegacy2 == Click("legacy2")

\* ---------------------------------------------------------------- claims
\* The type the claim assigns to a file name: by the lower-cased text after
\* the last '.'; a name without '.' has no such text and is 'unknown'.
ClaimedType(filename) ==
    LET dots == {i \in 1..Len(filename) : filename[i] = "."}
    IN  IF dots = {} THEN "unknown"
        ELSE LET lastDot == CHOOSE i \in dots : \A j \in dots : j <= i
                 ext == toLowerCase(SubSeq(filename, lastDot + 1, Len(filename)))
             IN  IF ext = <<"p", "d", "f">> THEN "pdf"
                 ELSE IF ext \in {<<"j", "p", "g">>, <<"j", "p", "e", "g">>,
                                  <<"p", "n", "g">>, <<"g", "i", "f">>,
                                  <<"b", "m", "p">>} THEN "image"
                 ELSE "unknown"

\* Implementation impl has determined its document type.
TypeDetermined(impl) ==
    IF impl = "owl" THEN pv[impl].stage = "ready"
                    ELSE pv[impl].stage \in {"init", "ready"}

\* C5: every implementation classifies the file name as the claim says ('pdf'
\* / 'image' by the lower-cased text after the last '.', 'unknown' otherwise),
\* so all three give the same type.
C5_TypeByTextAfterLastDot ==
    \A i \in Impls : TypeDetermined(i) => pv[i].type = ClaimedType(pvFilename)

\* C6: a click on the preview button opens exactly one dialog when the value
\* is non-empty and none when it is empty; the dialog body holds an embed for
\* type 'pdf', an img for type 'image' and no media element otherwise; no
\* other operation opens a dialog; and a preview button is only created when
\* the value is non-empty and the type is 'pdf' or 'image'.
C6_ClickOpensOneDialog ==
    [][ /\ pvLast'.op = "click" =>
              LET i == pvLast'.impl
                  tag == IF pv[i].type = "pdf" THEN "embed"
                         ELSE IF pv[i].type = "image" THEN "img" ELSE "none"
              IN  IF pvValue = ""
                  THEN pvDialogs' = pvDialogs
                  ELSE /\ Len(pvDialogs') = Len(pvDialogs) + 1
                       /\ SubSeq(pvDialogs', 1, Len(pvDialogs)) = pvDialogs
                       /\ pvDialogs'[Len(pvDialogs')].impl = i
                       /\ pvDialogs'[Len(pvDialogs')].body.tag = tag
                       /\ tag /= "none" =>
                              pvDialogs'[Len(pvDialogs')].body.data = pvValue
        /\ pvLast'.op /= "click" => pvDialogs' = pvDialogs
        /\ \A i \in Impls :
              (pv'[i].button /\ ~pv[i].button) =>
                  (pvValue' /= "" /\ pv'[i].type \in {"pdf", "image"}) ]_vars

\* C6 witness: a click with an empty value opened nothing, after an earlier
\* click with a value had opened a dialog holding an img.
C6_Witness ==
    /\ pvLast.op = "click"
    /\ pvValue = ""
    /\ Len(pvDialogs) = 1
    /\ pvDialogs[1].body.tag = "img"
    /\ pvClicks = 2

\* C6 second case: a dialog without media element (type 'unknown').
C6_WitnessNoMedia ==
    /\ pvLast.op = "click"
    /\ pvDialogs /= <<>>
    /\ pvDialogs[Len(pvDialogs)].body.tag = "none"

ClassifyNext ==
    \/ OwlSetup
    \/ OwlMounted
    \/ LegacyInit
    \/ Legacy2Init

PreviewNext ==
    \/ OwlSetup
    \/ OwlMounted
    \/ LegacyInit
    \/ Legacy2Init
    \/ LegacyRender
    \/ Legacy2Render
    \/ ChangeValue
    \/ ClickOwl
    \/ ClickLegacy
    \/ ClickLegacy2

\* ================================================ CompressionFormatWidget
\* pavement_calculator.js, lines 183-333
OptionValues == {"zip_fast", "7z_normal", "custom"}
Unset == "false"                \* a selection field without value is false

\* event.which of the keys pressed: Enter, Space, and two others (Tab, 'a')
EnterKey == 13
SpaceKey == 32
KeyCodes == {EnterKey, SpaceKey, 9, 65}

\* The selections a field can have: its keys are distinct.
Selections ==
    {sel \in UNION {[1..n -> OptionValues] : n \in 0..MaxOptions} :
        \A i, j \in 1..Len(sel) : i /= j => sel[i] /= sel[j]}

Card(value, selected, pressed) ==
    [value |-> value, selected |-> selected, pressed |-> pressed]

\* _render: this.$el.empty(), then one card per option; a card gets class
\* 'selected' and aria-pressed 'true' when value === optionValue
renderCards(options, value) ==
    [i \in 1..Len(options) |->
        Card(options[i], value = options[i], value = options[i])]

\* Faulty variant: _setValue adds 'selected' without removing it from the other cards.
markSelected_NoClear(cards, value) ==
    [i \in 1..Len(cards) |->
        Card(cards[i].value,
             cards[i].selected \/ cards[i].value = value,
             cards[i].value = value)]

\* _setValue after this._super(value): removeClass('selected') on every card,
\* addClass('selected') on the cards whose data-value is value; aria-pressed
\* 'false' on every card, 'true' on the cards whose data-value is value
markSelected(cards, value) ==
    [i \in 1..Len(cards) |->
        Card(cards[i].value, cards[i].value = value, cards[i].value = value)]

\* _setValue(value): the base AbstractField._setValue notifies the form of the
\* change, which stores value in the record; then the cards are re-marked.
setValue(value) ==
    /\ cfRecord' = value
    /\ cfCards' = markSelected(cfCards, value)

\* _onFormatKeydown: if (event.which === 13 || event.which === 32)
KeyActivates(which) == which = EnterKey \/ which = SpaceKey

FormatStart ==
    /\ cfRecord \in OptionValues \cup {Unset}
    /\ cfValue = cfRecord
    /\ cfCards = <<>>
    /\ cfKeys = 0
    /\ cfLast = [op |-> "init", card |-> 0, which |-> 0]

FormatInit == cfOptions \in Selections /\ FormatStart

FormatIdle ==
    /\ cfOptions = <<>>
    /\ cfRecord = Unset
    /\ cfValue = Unset
    /\ cfCards = <<>>
    /\ cfKeys = 0
    /\ cfLast = [op |-> "idle", card |-> 0, which |-> 0]

\* The form view (re)sets the widget from the record and renders it:
\* this.value = record.data[name]; _render()
FormatRender ==
    /\ cfValue' = cfRecord
    /\ cfCards' = renderCards(cfOptions, cfRecord)
    /\ cfLast' = [op |-> "render", card |-> 0, which |-> 0]
    /\ UNCHANGED <<cfOptions, cfRecord, cfKeys>>
    /\ UNCHANGED nonFormatVars

\* 'click .compression-format-option': _onFormatClick on card number c
FormatClick ==
    /\ cfKeys < MaxKeys
    /\ \E c \in 1..Len(cfCards) :
          /\ setValue(cfCards[c].value)
          /\ cfLast' = [op |-> "click", card |-> c, which |-> 0]
    /\ cfKeys' = cfKeys + 1
    /\ UNCHANGED <<cfOptions, cfValue>>
    /\ UNCHANGED nonFormatVars

\* 'keydown .compression-format-option': _onFormatKeydown on card number c
FormatKeydown ==
    /\ cfKeys < MaxKeys
    /\ \E c \in 1..Len(cfCards), which \in KeyCodes :
          /\ IF KeyActivates(which)
             THEN setValue(cfCards[c].value)
             ELSE UNCHANGED <<cfRecord, cfCards>>
          /\ cfLast' = [op |-> "keydown", card |-> c, which |-> which]
    /\ cfKeys' = cfKeys + 1
    /\ UNCHANGED <<cfOptions, cfValue>>
    /\ UNCHANGED nonFormatVars

\* ---------------------------------------------------------------- claims
SelectedCards(cards) == {i \in 1..Len(cards) : cards[i].selected}
PressedCards(cards) == {i \in 1..Len(cards) : cards[i].pressed}

\* C7: after every render, click and key press at most one card is marked
\* selected (class 'selected' and aria-pressed 'true' on the same card); a
\* click, or a keydown of Enter or Space, on a card sets the field's value to
\* the card's data-value and makes that card the only selected one; a keydown
\* of any other key changes neither the value nor the selection.
C7_OneSelectedCard ==
    [][ /\ Cardinality(SelectedCards(cfCards')) <= 1
        /\ PressedCards(cfCards') = SelectedCards(cfCards')
        /\ (\/ cfLast'.op = "click"
            \/ cfLast'.op = "keydown" /\ cfLast'.which \in {13, 32})
              => /\ cfRecord' = cfCards[cfLast'.card].value
                 /\ SelectedCards(cfCards') = {cfLast'.card}
        /\ (cfLast'.op = "keydown" /\ cfLast'.which \notin {13, 32})
              => /\ cfRecord' = cfRecord
                 /\ cfCards' = cfCards ]_vars

\* C7 witness: a Space key press moved the selection from another card to
\* card 2, after an earlier click or key press.
C7_Witness ==
    /\ cfLast.op = "keydown"
    /\ cfLast.which = 32
    /\ cfLast.card = 2
    /\ cfKeys >= 2
    /\ cfRecord /= cfValue
    /\ SelectedCards(cfCards) = {2}

FormatNext ==
    \/ FormatRender
    \/ FormatClick
    \/ FormatKeydown

\* ================================================ sale order form controllers
\* delivery_address_inline.js: SaleOrderFormController (legacy, lines 11-63)
\* and SaleOrderDeliveryFormController (OWL, lines 83-133)
OrderStates == {"draft", "sale", "done", "cancel"}
ButtonNames == {"action_create_delivery_address", "action_confirm"}

\* Faulty variant: the confirmation is asked for state 'sale' only.
NeedsConfirmation_SaleOnly(buttonName, state) ==
    buttonName = "action_create_delivery_address" /\ state = "sale"

\* buttonName === 'action_create_delivery_address' &&
\* ['sale', 'done'].includes(state)      (the same test in both controllers)
NeedsConfirmation(buttonName, state) ==
    buttonName = "action_create_delivery_address" /\ state \in {"sale", "done"}

SaleStart ==
    /\ soState \in OrderStates
    /\ soCalls = <<>>
    /\ soDialogs = <<>>
    /\ soBaseRuns = <<>>
    /\ soWarnings = <<>>
    /\ soEvents = 0

SaleOwlInit == SaleStart /\ soLast = [op |-> "init", call |-> 0, name |-> "none"]

SaleLegacyInit == SaleStart /\ soLast = [op |-> "init", call |-> 0, name |-> "none"]

SaleIdle ==
    /\ soState = "draft"
    /\ soCalls = <<>>
    /\ soDialogs = <<>>
    /\ soBaseRuns = <<>>
    /\ soWarnings = <<>>
    /\ soEvents = 0
    /\ soLast = [op |-> "idle", call |-> 0, name |-> "none"]

\* The order's state changes (another action of the form, a reload).
SaleStateChange ==
    /\ \E st \in OrderStates \ {soState} : soState' = st
    /\ soLast' = [op |-> "state", call |-> 0, name |-> "none"]
    /\ UNCHANGED <<soCalls, soDialogs, soBaseRuns, soWarnings, soEvents>>
    /\ UNCHANGED nonSaleVars

\* ---- OWL: async onButtonClicked(params)
Call(name, pc, state, confirmed) ==
    [name |-> name, pc |-> pc, state |-> state, confirmed |-> confirmed]

\* onButtonClicked(params) is called and runs up to
\* `await this.model.root.data`
OwlButtonClicked ==
    /\ Len(soCalls) < MaxCalls
    /\ \E name \in ButtonNames :
          /\ soCalls' = Append(soCalls, Call(name, "awaitData", "unread", FALSE))
          /\ soLast' = [op |-> "clicked", call |-> Len(soCalls) + 1, name |-> name]
    /\ UNCHANGED <<soState, soDialogs, soBaseRuns, soWarnings, soEvents>>
    /\ UNCHANGED nonSaleVars

\* The first await resumes: state = record.state; either the confirmation
\* dialog is opened and awaited, or super.onButtonClicked(params) runs.
OwlDataReady ==
    /\ \E c \in 1..Len(soCalls) :
          /\ soCalls[c].pc = "awaitData"
          /\ IF NeedsConfirmation(soCalls[c].name, soState)
             THEN /\ soCalls' = [soCalls EXCEPT ![c] =
                                    Call(@.name, "awaitConfirm", soState, FALSE)]
                  /\ soDialogs' = Append(soDialogs, c)
                  /\ UNCHANGED soBaseRuns
             ELSE /\ soCalls' = [soCalls EXCEPT ![c] =
                                    Call(@.name, "done", soState, FALSE)]
                  /\ soBaseRuns' = Append(soBaseRuns, [call |-> c, name |-> soCalls[c].name])
                  /\ UNCHANGED soDialogs
          /\ soLast' = [op |-> "dataReady", call |-> c, name |-> soCalls[c].name]
    /\ UNCHANGED <<soState, soWarnings, soEvents>>
    /\ UNCHANGED nonSaleVars

\* if (!confirmed) return;  otherwise super.onButtonClicked(params)
RunsBaseAfterDialog(confirmed) == confirmed

\* The user answers the confirmation dialog (or dismisses it: false).
OwlDialogAnswered ==
    /\ \E c \in 1..Len(soCalls), confirmed \in BOOLEAN :
          /\ soCalls[c].pc = "awaitConfirm"
          /\ soCalls' = [soCalls EXCEPT ![c] =
                            Call(@.name, "done", @.state, confirmed)]
          /\ soBaseRuns' = IF RunsBaseAfterDialog(confirmed)
                           THEN Append(soBaseRuns, [call |-> c, name |-> soCalls[c].name])
                           ELSE soBaseRuns
          /\ soLast' = [op |-> "answered", call |-> c, name |-> soCalls[c].name]
    /\ UNCHANGED <<soState, soDialogs, soWarnings, soEvents>>
    /\ UNCHANGED nonSaleVars

SaleOwlNext ==
    \/ SaleStateChange
    \/ OwlButtonClicked
    \/ OwlDataReady
    \/ OwlDialogAnswered

\* ---- legacy: _onButtonClicked(event)
\* _onButtonClicked with event.data.attrs.name = name: the warning with its
\* two buttons is displayed and the handler returns, or the base handler runs.
onButtonClickedLegacy(name) ==
    IF NeedsConfirmation(name, soState)
    THEN /\ soWarnings' = Append(soWarnings, name)
         /\ UNCHANGED soBaseRuns
    ELSE /\ soBaseRuns' = Append(soBaseRuns, [call |-> 0, name |-> name])
         /\ UNCHANGED soWarnings

\* A button of the form is clicked: the form raises 'button_clicked'.
LegacyButtonClicked ==
    /\ soEvents < MaxEvents
    /\ \E name \in ButtonNames :
          /\ onButtonClickedLegacy(name)
          /\ soLast' = [op |-> "clicked", call |-> 0, name |-> name]
    /\ soEvents' = soEvents + 1
    /\ UNCHANGED <<soState, soCalls, soDialogs>>
    /\ UNCHANGED nonSaleVars

\* 'Continuar' of warning w: self.trigger_up('button_clicked', event.data).
\* The controller's handler of 'button_clicked' is _onButtonClicked, so the
\* event is handled by the override again, with the order's current state.
\* (A warning stays on screen until it times out, so its buttons can be used
\* while it is in soWarnings.)
LegacyContinuar ==
    /\ soEvents < MaxEvents
    /\ \E w \in 1..Len(soWarnings) :
          /\ onButtonClickedLegacy(soWarnings[w])
          /\ soLast' = [op |-> "continuar", call |-> w, name |-> soWarnings[w]]
    /\ soEvents' = soEvents + 1
    /\ UNCHANGED <<soState, soCalls, soDialogs>>
    /\ UNCHANGED nonSaleVars

\* 'Cancelar' of warning w: click: function () { return; }
LegacyCancelar ==
    /\ \E w \in 1..Len(soWarnings) :
          soLast' = [op |-> "cancelar", call |-> w, name |-> soWarnings[w]]
    /\ UNCHANGED <<soState, soCalls, soDialogs, soBaseRuns, soWarnings, soEvents>>
    /\ UNCHANGED nonSaleVars

SaleLegacyNext ==
    \/ SaleStateChange
    \/ LegacyButtonClicked
    \/ LegacyContinuar
    \/ LegacyCancelar

\* ---------------------------------------------------------------- claims
BaseRunsOf(c) == {k \in 1..Len(soBaseRuns) : soBaseRuns[k].call = c}
DialogsOf(c) == {k \in 1..Len(soDialogs) : soDialogs[k] = c}

\* C8: for an invocation that found the button 'action_create_delivery_address'
\* on an order in state 'sale' or 'done', one confirmation dialog is shown
\* before any run of the base handler, and the base handler runs (once, with
\* the clicked button) iff the user confirmed; every other invocation runs
\* the base handler once and shows no dialog.
C8_ConfirmBeforeBase ==
    \A c \in 1..Len(soCalls) :
        LET call == soCalls[c]
            asks == call.name = "action_create_delivery_address"
                    /\ call.state \in {"sale", "done"}
        IN  /\ call.pc = "awaitData" => (BaseRunsOf(c) = {} /\ DialogsOf(c) = {})
            /\ call.pc = "awaitConfirm" =>
                  (asks /\ BaseRunsOf(c) = {} /\ Cardinality(DialogsOf(c)) = 1)
            /\ call.pc = "done" =>
                  /\ Cardinality(DialogsOf(c)) = (IF asks THEN 1 ELSE 0)
                  /\ Cardinality(BaseRunsOf(c)) =
                        (IF asks /\ ~call.confirmed THEN 0 ELSE 1)
                  /\ \A k \in BaseRunsOf(c) : soBaseRuns[k].name = call.name

\* C8 witness: on an order in state 'done' one invocation was confirmed and
\* ran the base handler, another was cancelled and did not.
C8_Witness ==
    /\ Len(soCalls) = 2
    /\ \A c \in 1..2 : /\ soCalls[c].pc = "done"
                       /\ soCalls[c].name = "action_create_delivery_address"
                       /\ soCalls[c].state = "done"
    /\ soCalls[1].confirmed /\ ~soCalls[2].confirmed
    /\ Len(soDialogs) = 2
    /\ Len(soBaseRuns) = 1

\* C9: the button 'action_create_delivery_address' on an order in state 'sale'
\* or 'done' shows the warning instead of running the action; choosing
\* Continuar makes the base handler execute the original button action;
\* choosing Cancelar executes nothing.
C9_ContinuarRunsAction ==
    [][ /\ (soLast'.op = "clicked"
            /\ soLast'.name = "action_create_delivery_address"
            /\ soState \in {"sale", "done"})
              => /\ soWarnings' = Append(soWarnings, soLast'.name)
                 /\ soBaseRuns' = soBaseRuns
        /\ soLast'.op = "continuar" =>
              soBaseRuns' = Append(soBaseRuns, [call |-> 0, name |-> soLast'.name])
        /\ soLast'.op = "cancelar" => soBaseRuns' = soBaseRuns ]_vars

\* ================================================== InvoiceFormController
\* unnamed/part_002, lines 17-65
\* record.data.model ("undefined" when the record has no such field) and
\* record.data.tiene_campos_personalizados
InvoiceRecords == [model : {"undefined", "account.move", "res.partner"},
                   tiene_campos_personalizados : BOOLEAN]

\* What the base FormController.saveRecord resolves with: the changed fields.
SaveResults == {<<>>, <<"ref">>, <<"ref", "name">>}

NotSettled == <<"pending">>
Rejected == <<"rejected">>

Save(pc, base, returned) == [pc |-> pc, base |-> base, returned |-> returned]

SavedTitle == "Factura personalizada"

\* Faulty variant: the notification is shown for every saved account.move.
ShowsSavedNotice_AnyInvoice(record) == record.model = "account.move"

\* record.data.model === 'account.move' && record.data.tiene_campos_personalizados
ShowsSavedNotice(record) ==
    record.model = "account.move" /\ record.tiene_campos_personalizados

InvoiceInit ==
    /\ ivRecord \in InvoiceRecords
    /\ ivSaves = <<>>
    /\ ivNotes = <<>>
    /\ ivLast = [op |-> "init", save |-> 0]

InvoiceIdle ==
    /\ ivRecord = [model |-> "undefined", tiene_campos_personalizados |-> FALSE]
    /\ ivSaves = <<>>
    /\ ivNotes = <<>>
    /\ ivLast = [op |-> "idle", save |-> 0]

\* The record's data changes (an edit, or the values written back by a save).
InvoiceRecordChange ==
    /\ \E r \in InvoiceRecords \ {ivRecord} : ivRecord' = r
    /\ ivLast' = [op |-> "change", save |-> 0]
    /\ UNCHANGED <<ivSaves, ivNotes>>
    /\ UNCHANGED nonInvoiceVars

\* saveRecord() is called: the base save starts and .then(...) is attached.
SaveRecord ==
    /\ Len(ivSaves) < MaxSaves
    /\ ivSaves' = Append(ivSaves, Save("saving", NotSettled, NotSettled))
    /\ ivLast' = [op |-> "save", save |-> Len(ivSaves) + 1]
    /\ UNCHANGED <<ivRecord, ivNotes>>
    /\ UNCHANGED nonInvoiceVars

\* The base save of invocation s resolves with result: the .then callback
\* reads the record, may display the notification, and returns result.
BaseSaveResolved ==
    /\ \E s \in 1..Len(ivSaves), result \in SaveResults :
          /\ ivSaves[s].pc = "saving"
          /\ ivNotes' = IF ShowsSavedNotice(ivRecord)
                        THEN Append(ivNotes, [save |-> s, title |-> SavedTitle,
                                              type |-> "success"])
                        ELSE ivNotes
          /\ ivSaves' = [ivSaves EXCEPT ![s] = Save("resolved", result, result)]
          /\ ivLast' = [op |-> "resolved", save |-> s]
    /\ UNCHANGED ivRecord
    /\ UNCHANGED nonInvoiceVars

\* The base save of invocation s rejects: the .then callback is skipped and
\* the returned promise rejects.
BaseSaveRejected ==
    /\ \E s \in 1..Len(ivSaves) :
          /\ ivSaves[s].pc = "saving"
          /\ ivSaves' = [ivSaves EXCEPT ![s] = Save("rejected", Rejected, Rejected)]
          /\ ivLast' = [op |-> "rejected", save |-> s]
    /\ UNCHANGED <<ivRecord, ivNotes>>
    /\ UNCHANGED nonInvoiceVars

InvoiceNext ==
    \/ InvoiceRecordChange
    \/ SaveRecord
    \/ BaseSaveResolved
    \/ BaseSaveRejected

\* ---------------------------------------------------------------- claims
\* C10: a 'Factura personalizada' success notification is displayed only in
\* the step in which a base save resolves, and only when the record then
\* reads as an account.move (record.data.model) with
\* tiene_campos_personalizados set; saveRecord resolves with the value the
\* base save resolved with; a rejected save displays no notification.
C10_NoticeOnlyAfterSave ==
    [][ /\ ivNotes' /= ivNotes
              => /\ ivLast'.op = "resolved"
                 /\ ivSaves[ivLast'.save].pc = "saving"
                 /\ ivSaves'[ivLast'.save].pc = "resolved"
                 /\ ivRecord'.model = "account.move"
                 /\ ivRecord'.tiene_campos_personalizados
                 /\ ivNotes' = Append(ivNotes, [save |-> ivLast'.save,
                                                title |-> "Factura personalizada",
                                                type |-> "success"])
        /\ \A s \in 1..Len(ivSaves') :
              /\ ivSaves'[s].pc = "resolved"
                    => (ivSaves'[s].returned = ivSaves'[s].base
                        /\ ivSaves'[s].base \in SaveResults)
              /\ ivSaves'[s].pc = "rejected"
                    => \A k \in 1..Len(ivNotes') : ivNotes'[k].save /= s ]_vars

\* C10 witness: one save of a personalised invoice resolved and was notified,
\* another save was rejected.
C10_Witness ==
    /\ Len(ivSaves) = 2
    /\ ivSaves[1].pc = "rejected"
    /\ ivSaves[2].pc = "resolved"
    /\ ivSaves[2].returned = <<"ref">>
    /\ Len(ivNotes) = 1
    /\ ivNotes[1].save = 2

\* ===================================================== PavementCalculator
\* pavement_calculator.js, lines 10-155.  Texts (input values, option
\* values, element texts) are sequences of characters; <<>> is ''.
Digits == <<"0", "1", "2", "3", "4", "5", "6", "7", "8", "9">>

IsDigit(c) == \E d \in 1..10 : Digits[d] = c

DigitValue(c) == (CHOOSE d \in 1..10 : Digits[d] = c) - 1

\* The text jQuery stores for a non-negative integer given to .val(n) or
\* to an option's value attribute.
RECURSIVE ToText(_)
ToText(n) ==
    IF n < 10 THEN <<Digits[n + 1]>>
    ELSE Append(ToText(n \div 10), Digits[(n % 10) + 1])

\* parseInt's result for a text that does not start with a digit
NaN == -1

RECURSIVE ParseDigits(_, _)
ParseDigits(text, acc) ==
    IF text = <<>> \/ ~IsDigit(Head(text)) THEN acc
    ELSE ParseDigits(Tail(text), 10 * acc + DigitValue(Head(text)))

\* Faulty variant: only the first digit is read.
ParseInt_FirstDigit(text) ==
    IF text = <<>> \/ ~IsDigit(Head(text)) THEN NaN
    ELSE DigitValue(Head(text))

\* parseInt(text) for the unsigned texts the select's options carry: the
\* leading decimal digits, NaN when there are none.
ParseInt(text) ==
    IF text = <<>> \/ ~IsDigit(Head(text)) THEN NaN
    ELSE ParseDigits(text, 0)

\* Materials the server can return (id, min_thickness, max_thickness).
Resina == [id |-> 3, min_thickness |-> 2, max_thickness |-> 8]
Mortero == [id |-> 12, min_thickness |-> 5, max_thickness |-> 20]

\* data.materials || []   (a missing list is the empty list)
MaterialLists == {<<>>, <<Resina>>, <<Resina, Mortero>>}

\* _.findWhere(list, {id: id}): the first element with that id, as a
\* sequence of at most one element (<<>> for undefined).
FindWhere(list, id) ==
    LET hits == {i \in 1..Len(list) : list[i].id = id}
    IN  IF hits = {} THEN <<>>
        ELSE <<list[CHOOSE i \in hits : \A j \in hits : i <= j]>>

\* The option values _initializeForm gives the #material_id select.
MaterialOptions(materials) ==
    {<<>>} \cup {ToText(materials[i].id) : i \in 1..Len(materials)}

\* 'Rango permitido: ' + min_thickness + ' - ' + max_thickness + ' mm'
RangeText(material) ==
    <<"Rango permitido: ">> \o ToText(material.min_thickness) \o <<" - ">>
        \o ToText(material.max_thickness) \o <<" mm">>

\* Values the user can leave in an input.
InputTexts == {<<>>, <<"0">>}
InputNames == {"area", "thickness", "waste_factor"}

\* Answers of /pavement_calculator/calculate ("" stands for no error).
CalcResults == [error : {"", "Espesor fuera de rango"}, total_cost : {120, 250}]

SelectMaterialText == "Por favor seleccione un material"
AllFieldsText == "Todos los campos son obligatorios"
CalcFailureText == "Error al realizar el cálculo"

\* !value for the text value of a form control
Falsy(text) == text = <<>>

\* Faulty variant: the waste factor is not checked.
MissingField_NoWaste(area, thickness, wasteFactor) ==
    Falsy(area) \/ Falsy(thickness)

\* !area || !thickness || !wasteFactor
MissingField(area, thickness, wasteFactor) ==
    Falsy(area) \/ Falsy(thickness) \/ Falsy(wasteFactor)

NoParams == <<>>

\* _clearResults
clearResults ==
    /\ pcResults' = <<>>
    /\ pcHidden' = TRUE

\* _displayResults(results)
displayResults(results) ==
    /\ pcResults' = <<results>>
    /\ pcHidden' = FALSE

\* _showError(message): the alert dialog with that message
showError(text) == pcDialogs' = Append(pcDialogs, text)

PavementStart ==
    /\ pcMaterials = <<>>
    /\ pcMaterialId = <<>>
    /\ pcArea = <<>>
    /\ pcThickness = <<>>
    /\ pcWaste = <<>>
    /\ pcRound = FALSE
    /\ pcRange = <<>>
    /\ pcResults = <<>>
    /\ pcHidden = TRUE
    /\ pcDialogs = <<>>
    /\ pcClicks = 0
    /\ pcPending = 0

\* init (lines 18-24), before willStart and start
PavementInit ==
    /\ pcPhase = "init"
    /\ PavementStart
    /\ pcLast = [op |-> "init", params |-> NoParams]

\* The component is not in use (the other components' specifications).
PavementIdle ==
    /\ pcPhase = "idle"
    /\ PavementStart
    /\ pcLast = [op |-> "idle", params |-> NoParams]

\* willStart loads the materials, start runs _initializeForm: the select
\* gets the '' option (selected) and one option per material, the inputs
\* get their defaults.
PcStart ==
    /\ pcPhase = "init"
    /\ pcPhase' = "started"
    /\ \E materials \in MaterialLists : pcMaterials' = materials
    /\ pcMaterialId' = <<>>
    /\ pcArea' = ToText(1)
    /\ pcThickness' = ToText(10)
    /\ pcWaste' = ToText(5)
    /\ pcRound' = TRUE
    /\ pcLast' = [op |-> "start", params |-> NoParams]
    /\ UNCHANGED <<pcRange, pcResults, pcHidden, pcDialogs, pcClicks, pcPending>>
    /\ UNCHANGED nonPavementVars

\* The user leaves another value in one of the .calculator-input inputs;
\* the change event runs _onInputChange.
PcInputChange ==
    /\ pcPhase = "started"
    /\ \E name \in InputNames, text \in InputTexts :
          /\ name = "area" => text /= pcArea
          /\ name = "thickness" => text /= pcThickness
          /\ name = "waste_factor" => text /= pcWaste
          /\ pcArea' = IF name = "area" THEN text ELSE pcArea
          /\ pcThickness' = IF name = "thickness" THEN text ELSE pcThickness
          /\ pcWaste' = IF name = "waste_factor" THEN text ELSE pcWaste
    /\ clearResults
    /\ pcLast' = [op |-> "inputChange", params |-> NoParams]
    /\ UNCHANGED <<pcPhase, pcMaterials, pcMaterialId, pcRound, pcRange,
                   pcDialogs, pcClicks, pcPending>>
    /\ UNCHANGED nonPavementVars

\* The user picks another option of #material_id; the change event runs
\* _onMaterialChange.
PcMaterialChange ==
    /\ pcPhase = "started"
    /\ \E option \in MaterialOptions(pcMaterials) \ {pcMaterialId} :
          LET materialId == ParseInt(option)
              currentMaterial == FindWhere(pcMaterials, materialId)
          IN  /\ pcMaterialId' = option
              /\ IF currentMaterial /= <<>>
                 THEN /\ pcRange' = RangeText(currentMaterial[1])
                      /\ pcThickness' = ToText(currentMaterial[1].min_thickness)
                 ELSE /\ pcRange' = <<>>
                      /\ pcThickness' = pcThickness
    /\ clearResults
    /\ pcLast' = [op |-> "materialChange", params |-> NoParams]
    /\ UNCHANGED <<pcPhase, pcMaterials, pcArea, pcWaste, pcRound, pcDialogs,
                   pcClicks, pcPending>>
    /\ UNCHANGED nonPavementVars

\* _onCalculateClick up to the rpc.query call
PcCalculateClick ==
    /\ pcPhase = "started"
    /\ pcClicks < MaxPcClicks
    /\ pcClicks' = pcClicks + 1
    /\ LET materialId == pcMaterialId
           area == pcArea
           thickness == pcThickness
           wasteFactor == pcWaste
           roundToPackages == pcRound
       IN  IF Falsy(materialId)
           THEN /\ showError(SelectMaterialText)
                /\ pcLast' = [op |-> "calculateClick", params |-> NoParams]
                /\ UNCHANGED pcPending
           ELSE IF MissingField(area, thickness, wasteFactor)
           THEN /\ showError(AllFieldsText)
                /\ pcLast' = [op |-> "calculateClick", params |-> NoParams]
                /\ UNCHANGED pcPending
           ELSE /\ pcPending' = pcPending + 1
                /\ pcLast' = [op |-> "calculateClick",
                              params |-> <<[material_id |-> materialId,
                                            area |-> area,
                                            thickness |-> thickness,
                                            waste_factor |-> wasteFactor,
                                            round_to_packages |-> roundToPackages]>>]
                /\ UNCHANGED pcDialogs
    /\ UNCHANGED <<pcPhase, pcMaterials, pcMaterialId, pcArea, pcThickness,
                   pcWaste, pcRound, pcRange, pcResults, pcHidden>>
    /\ UNCHANGED nonPavementVars

\* .then(function (result) {...}) of the calculate request
PcCalculateResolved ==
    /\ pcPending > 0
    /\ pcPending' = pcPending - 1
    /\ \E result \in CalcResults :
          IF result.error /= ""
          THEN showError(result.error) /\ UNCHANGED <<pcResults, pcHidden>>
          ELSE displayResults(result) /\ UNCHANGED pcDialogs
    /\ pcLast' = [op |-> "calculateResolved", params |-> NoParams]
    /\ UNCHANGED <<pcPhase, pcMaterials, pcMaterialId, pcArea, pcThickness,
                   pcWaste, pcRound, pcRange, pcClicks>>
    /\ UNCHANGED nonPavementVars

\* .guardedCatch(function (error) {...}) of the calculate request
PcCalculateRejected ==
    /\ pcPending > 0
    /\ pcPending' = pcPending - 1
    /\ showError(CalcFailureText)
    /\ pcLast' = [op |-> "calculateRejected", params |-> NoParams]
    /\ UNCHANGED <<pcPhase, pcMaterials, pcMaterialId, pcArea, pcThickness,
                   pcWaste, pcRound, pcRange, pcResults, pcHidden, pcClicks>>
    /\ UNCHANGED nonPavementVars

\* ---------------------------------------------------------------- claims
\* C17: a click on the calculate button with no material selected, or with
\* an empty area, thickness or waste factor, shows an error dialog, sends no
\* calculate request and leaves the stored results as they are; the material
\* check comes first; a request is sent only when all four are non-empty.
C17_CalculateValidation ==
    [][ pcLast'.op = "calculateClick"
          => IF pcMaterialId = <<>>
             THEN /\ pcDialogs' = Append(pcDialogs, "Por favor seleccione un material")
                  /\ pcPending' = pcPending
                  /\ pcResults' = pcResults
             ELSE IF pcArea = <<>> \/ pcThickness = <<>> \/ pcWaste = <<>>
             THEN /\ pcDialogs' = Append(pcDialogs, "Todos los campos son obligatorios")
                  /\ pcPending' = pcPending
                  /\ pcResults' = pcResults
             ELSE TRUE ]_vars

\* C17 witness: with a material selected, an empty waste factor and results
\* on display, a click showed the 'all fields' dialog and sent nothing.
C17_Witness ==
    /\ pcLast.op = "calculateClick"
    /\ pcMaterialId /= <<>>
    /\ pcArea /= <<>>
    /\ pcThickness /= <<>>
    /\ pcWaste = <<>>
    /\ pcResults /= <<>>
    /\ pcPending = 0
    /\ pcDialogs = <<"Todos los campos son obligatorios">>

\* C18: every input change and every material change clears the results
\* (results null, panel hidden); a material change also sets the thickness
\* input to the selected material's min_thickness, or empties the
\* thickness-range text when the selection matches no loaded material.
C18_ChangesClearResults ==
    [][ /\ pcLast'.op = "inputChange" => (pcResults' = <<>> /\ pcHidden')
        /\ pcLast'.op = "materialChange"
              => /\ pcResults' = <<>>
                 /\ pcHidden'
                 /\ LET chosen == {i \in 1..Len(pcMaterials) :
                                      ToText(pcMaterials[i].id) = pcMaterialId'}
                    IN  IF chosen /= {}
                        THEN \E i \in chosen :
                                pcThickness' = ToText(pcMaterials[i].min_thickness)
                        ELSE pcRange' = <<>> ]_vars

\* C18 witness: results were on display (a request was answered without a
\* dialog) and choosing the material with id 12 cleared them and set the
\* thickness to its min_thickness, 5.
C18_Witness ==
    /\ pcLast.op = "materialChange"
    /\ pcMaterialId = <<"1", "2">>
    /\ pcThickness = <<"5">>
    /\ pcClicks >= 1
    /\ pcPending = 0
    /\ pcDialogs = <<>>
    /\ pcResults = <<>>
    /\ pcHidden

PavementNext ==
    \/ PcStart
    \/ PcInputChange
    \/ PcMaterialChange
    \/ PcCalculateClick
    \/ PcCalculateResolved
    \/ PcCalculateRejected

\* ======================================= sale order form: field changes
\* delivery_address_inline.js: _onFieldChanged of the legacy controller
\* (lines 17-30) and of the OWL controller (lines 87-104).
FormFields == {"selected_delivery_partner_id", "partner_shipping_id",
               "use_alternative_delivery", "note"}

\* An event as trigger_up(name, data) builds it (line 54 raises one, line 38
\* reads one): the event's name, a sequence of characters, and the payload
\* under data.
trigger_up(name, data) == [name |-> name, data |-> data]

\* 'field_changed', the name of the event the field widgets raise
FieldChangedName ==
    <<"f", "i", "e", "l", "d", "_", "c", "h", "a", "n", "g", "e", "d">>

\* 'selected_delivery_partner_id'
SelectedDeliveryPartnerId ==
    <<"s", "e", "l", "e", "c", "t", "e", "d", "_", "d", "e", "l", "i",
    "v", "e", "r", "y", "_", "p", "a", "r", "t", "n", "e", "r", "_", "i",
    "d">>

\* 'partner_shipping_id'
PartnerShippingId ==
    <<"p", "a", "r", "t", "n", "e", "r", "_", "s", "h", "i", "p", "p",
    "i", "n", "g", "_", "i", "d">>

\* lines 99-101
OwlReloads(fieldName) ==
    \/ fieldName = "selected_delivery_partner_id"
    \/ fieldName = "partner_shipping_id"
    \/ fieldName = "use_alternative_delivery"

\* line 22: fieldName is the text event.name.split('.').pop() returned
LegacyReloads(fieldName) ==
    fieldName = SelectedDeliveryPartnerId \/ fieldName = PartnerShippingId

FieldStart ==
    /\ fcBase = <<>>
    /\ fcBaseDone = <<>>
    /\ fcReloads = <<>>
    /\ fcEvents = 0

FieldInit ==
    /\ fcController \in {"legacy", "owl"}
    /\ FieldStart
    /\ fcLast = [op |-> "init", field |-> "none"]

\* The component is not in use (the other components' specifications).
FieldIdle ==
    /\ fcController = "none"
    /\ FieldStart
    /\ fcLast = [op |-> "idle", field |-> "none"]

\* legacy: a field widget raises 'field_changed' for a change of `field`
\* and the controller's _onFieldChanged(event) runs up to its return; the
\* base handler has been called and its promise is pending.
LegacyFieldChanged ==
    /\ fcController = "legacy"
    /\ fcEvents < MaxFieldEvents
    /\ fcEvents' = fcEvents + 1
    /\ \E field \in FormFields :
          LET event == trigger_up(FieldChangedName, [changes |-> field])
              fieldName == SplitPop(event.name)
          IN  /\ fcBase' = Append(fcBase, [field |-> event.data.changes,
                                           thenReload |-> LegacyReloads(fieldName)])
              /\ fcLast' = [op |-> "fieldChanged", field |-> field]
    /\ UNCHANGED <<fcController, fcBaseDone, fcReloads>>
    /\ UNCHANGED nonFieldVars

\* legacy: the base handler's promise resolves; the .then callback of line
\* 23, when one was attached, triggers 'reload'.
LegacyBaseResolved ==
    /\ fcController = "legacy"
    /\ fcBase /= <<>>
    /\ LET call == Head(fcBase)
       IN  /\ fcBaseDone' = Append(fcBaseDone, call.field)
           /\ fcReloads' = IF call.thenReload
                           THEN Append(fcReloads, call.field)
                           ELSE fcReloads
           /\ fcLast' = [op |-> "baseResolved", field |-> call.field]
    /\ fcBase' = Tail(fcBase)
    /\ UNCHANGED <<fcController, fcEvents>>
    /\ UNCHANGED nonFieldVars

\* legacy: the base handler's promise is rejected; no callback runs.
LegacyBaseRejected ==
    /\ fcController = "legacy"
    /\ fcBase /= <<>>
    /\ fcLast' = [op |-> "baseRejected", field |-> Head(fcBase).field]
    /\ fcBase' = Tail(fcBase)
    /\ UNCHANGED <<fcController, fcBaseDone, fcReloads, fcEvents>>
    /\ UNCHANGED nonFieldVars

\* OWL: the bus delivers FIELD_CHANGED with detail.fieldName = field and
\* _onFieldChanged(event) runs; model.load() is recorded in fcReloads.
OwlFieldChanged ==
    /\ fcController = "owl"
    /\ fcEvents < MaxFieldEvents
    /\ fcEvents' = fcEvents + 1
    /\ \E field \in FormFields :
          LET event == [detail |-> [fieldName |-> field]]
              fieldName == event.detail.fieldName
          IN  /\ fcReloads' = IF OwlReloads(fieldName)
                              THEN Append(fcReloads, fieldName)
                              ELSE fcReloads
              /\ fcLast' = [op |-> "owlFieldChanged", field |-> field]
    /\ UNCHANGED <<fcController, fcBase, fcBaseDone>>
    /\ UNCHANGED nonFieldVars

\* ---------------------------------------------------------------- claims
\* C19: in the legacy controller a change of 'selected_delivery_partner_id'
\* or 'partner_shipping_id' triggers a reload, and only once the base
\* field-changed handling has completed; in the OWL controller a change of
\* either field or of 'use_alternative_delivery' reloads the model; a change
\* of any other field triggers no reload in either controller.
C19_AddressChangeReloads ==
    [][ /\ fcLast'.op = "fieldChanged" => fcReloads' = fcReloads
        /\ fcLast'.op = "baseResolved"
              => fcReloads' =
                    IF fcLast'.field \in {"selected_delivery_partner_id",
                                          "partner_shipping_id"}
                    THEN Append(fcReloads, fcLast'.field)
                    ELSE fcReloads
        /\ fcLast'.op = "owlFieldChanged"
              => fcReloads' =
                    IF fcLast'.field \in {"selected_delivery_partner_id",
                                          "partner_shipping_id",
                                          "use_alternative_delivery"}
                    THEN Append(fcReloads, fcLast'.field)
                    ELSE fcReloads ]_vars

FieldNext ==
    \/ LegacyFieldChanged
    \/ LegacyBaseResolved
    \/ LegacyBaseRejected
    \/ OwlFieldChanged

\* ========================================================= specifications
\* BulkExportProgress
Init == PollInit /\ PreviewIdle /\ FormatIdle /\ SaleIdle /\ InvoiceIdle
    /\ PavementIdle /\ FieldIdle
Spec == Init /\ [][PollNext]_vars

\* Document type classification of the three preview implementations
InitClassify == PollIdle /\ ClassifyInit /\ FormatIdle /\ SaleIdle /\ InvoiceIdle
    /\ PavementIdle /\ FieldIdle
SpecClassify == InitClassify /\ [][ClassifyNext]_vars

\* Document preview field: render, value changes and clicks
InitPreview == PollIdle /\ PreviewInit /\ FormatIdle /\ SaleIdle /\ InvoiceIdle
    /\ PavementIdle /\ FieldIdle
SpecPreview == InitPreview /\ [][PreviewNext]_vars

\* CompressionFormatWidget
InitFormat == PollIdle /\ PreviewIdle /\ FormatInit /\ SaleIdle /\ InvoiceIdle
    /\ PavementIdle /\ FieldIdle
SpecFormat == InitFormat /\ [][FormatNext]_vars

\* SaleOrderDeliveryFormController (OWL)
InitSaleOwl == PollIdle /\ PreviewIdle /\ FormatIdle /\ SaleOwlInit /\ InvoiceIdle
    /\ PavementIdle /\ FieldIdle
SpecSaleOwl == InitSaleOwl /\ [][SaleOwlNext]_vars

\* SaleOrderFormController (legacy)
InitSaleLegacy == PollIdle /\ PreviewIdle /\ FormatIdle /\ SaleLegacyInit /\ InvoiceIdle
    /\ PavementIdle /\ FieldIdle
SpecSaleLegacy == InitSaleLegacy /\ [][SaleLegacyNext]_vars

\* InvoiceFormController
InitInvoice == PollIdle /\ PreviewIdle /\ FormatIdle /\ SaleIdle /\ InvoiceInit
    /\ PavementIdle /\ FieldIdle
SpecInvoice == InitInvoice /\ [][InvoiceNext]_vars

\* PavementCalculator
InitPavement == PollIdle /\ PreviewIdle /\ FormatIdle /\ SaleIdle /\ InvoiceIdle
    /\ PavementInit /\ FieldIdle
SpecPavement == InitPavement /\ [][PavementNext]_vars

\* Field changes on the sale order form (legacy and OWL controller)
InitSaleFields == PollIdle /\ PreviewIdle /\ FormatIdle /\ SaleIdle /\ InvoiceIdle
    /\ PavementIdle /\ FieldInit
SpecSaleFields == InitSaleFields /\ [][FieldNext]_vars

====
